---- MODULE Spec2Model ----
(***************************************************************************)
(* A model of the request throttle of the podcast-automation backend:      *)
(* api/throttling.py (CustomThrottle) on top of common/utils.py            *)
(* (cache_result).                                                         *)
(*                                                                         *)
(* Python strings are sequences of one-character strings, so that split,   *)
(* strip, int() and format are computed the way Python computes them.      *)
(* None is the one-element sequence <<"None">>, which no string equals.    *)
(* Time is in whole seconds.                                               *)
(***************************************************************************)
EXTENDS Bags, FiniteSets, Integers, Naturals, Sequences, TLC

(***************************************************************************)
(* Bounds of the model.                                                    *)
(***************************************************************************)
\* the clock stops advancing here
MaxClock == 2
\* allow_request calls recorded in one behaviour
MaxCalls == 3
\* the same two bounds for the runs on a one-minute period
MaxMinuteClock == 61
MaxMinuteCalls == 4
\* allow_request calls the concurrent threads start in one behaviour
MaxConcCalls == 3

(***************************************************************************)
(* Python values and strings.                                              *)
(***************************************************************************)
PyNone == <<"None">>

IsNone(s) == s = PyNone

\* bool(s) of a str-or-None value
StrTruthy(s) == ~IsNone(s) /\ Len(s) > 0

\* A value that is a bool, a list of timestamps or a dict (only {} occurs).
PyBool(x) == [t |-> "bool", b |-> x, l |-> <<>>]

PyList(s) == [t |-> "list", b |-> FALSE, l |-> s]

PyDict == [t |-> "dict", b |-> FALSE, l |-> <<>>]

\* bool(v)
Truthy(v) == IF v.t = "bool" THEN v.b ELSE Len(v.l) > 0

Digits == <<"0", "1", "2", "3", "4", "5", "6", "7", "8", "9">>

IsDigit(c) == \E i \in 1..10 : Digits[i] = c

DigitVal(c) == (CHOOSE i \in 1..10 : Digits[i] = c) - 1

IsSpace(c) == c \in {" ", "\t", "\n"}

RECURSIVE LStrip(_)
LStrip(s) == IF Len(s) > 0 /\ IsSpace(Head(s)) THEN LStrip(Tail(s)) ELSE s

RECURSIVE RStrip(_)
RStrip(s) ==
  IF Len(s) > 0 /\ IsSpace(s[Len(s)]) THEN RStrip(SubSeq(s, 1, Len(s) - 1)) ELSE s

\* str.strip()
Strip(s) == RStrip(LStrip(s))

\* str.split(sep) for a one-character separator: the list of the fields
RECURSIVE SplitFrom(_, _, _, _)
SplitFrom(s, sep, i, cur) ==
  IF i > Len(s) THEN <<cur>>
  ELSE IF s[i] = sep THEN <<cur>> \o SplitFrom(s, sep, i + 1, <<>>)
  ELSE SplitFrom(s, sep, i + 1, Append(cur, s[i]))

Split(s, sep) == SplitFrom(s, sep, 1, <<>>)

\* the digits of int(): one or more digits, single underscores between them
RECURSIVE DigitsOk(_, _)
DigitsOk(s, prevDigit) ==
  IF Len(s) = 0 THEN prevDigit
  ELSE IF IsDigit(Head(s)) THEN DigitsOk(Tail(s), TRUE)
  ELSE IF Head(s) = "_" THEN prevDigit /\ Len(s) > 1 /\ IsDigit(s[2]) /\ DigitsOk(Tail(s), FALSE)
  ELSE FALSE

RECURSIVE DigitsValue(_, _)
DigitsValue(s, acc) ==
  IF Len(s) = 0 THEN acc
  ELSE IF Head(s) = "_" THEN DigitsValue(Tail(s), acc)
  ELSE DigitsValue(Tail(s), 10 * acc + DigitVal(Head(s)))

\* int(s) of a string: [exc, val]; surrounding whitespace and a sign are accepted
PyInt(s) ==
  LET body == Strip(s)
      signed == Len(body) > 0 /\ Head(body) \in {"+", "-"}
      ds == IF signed THEN Tail(body) ELSE body
  IN IF DigitsOk(ds, FALSE)
     THEN [exc |-> "none",
           val |-> IF signed /\ Head(body) = "-" THEN 0 - DigitsValue(ds, 0)
                   ELSE DigitsValue(ds, 0)]
     ELSE [exc |-> "ValueError", val |-> 0]

\* str(n) of an integer n >= 0
RECURSIVE NatToStr(_)
NatToStr(n) == IF n < 10 THEN <<Digits[n + 1]>> ELSE Append(NatToStr(n \div 10), Digits[(n % 10) + 1])

\* what an f-string or str.format makes of a str-or-None value
FormatStr(s) == IF IsNone(s) THEN <<"N", "o", "n", "e">> ELSE s

(***************************************************************************)
(* String literals of the source.                                          *)
(***************************************************************************)
S_second == <<"s", "e", "c", "o", "n", "d">>

S_minute == <<"m", "i", "n", "u", "t", "e">>

S_hour == <<"h", "o", "u", "r">>

S_day == <<"d", "a", "y">>

S_throttle_ == <<"t", "h", "r", "o", "t", "t", "l", "e", "_">>

CACHE_PREFIX == <<"p", "o", "d", "c", "a", "s", "t", "_", "a", "u", "t", "o", "m", "a", "t", "i", "o", "n", ":">>

\* DEFAULT_THROTTLE_RATES as the source sets it: 100/hour and 10/hour
DEFAULT_THROTTLE_RATES ==
  [user |-> <<"1", "0", "0", "/">> \o S_hour, anon |-> <<"1", "0", "/">> \o S_hour]

\* The rate tables a deployment may configure in place of the defaults
\* ("review and adjust the DEFAULT_THROTTLE_RATES"): small limits on a
\* one-second period, malformed rates, and a missing rate.
RatesSecond == [user |-> <<"2", "/">> \o S_second, anon |-> <<"1", "/">> \o S_second]

RatesMinute == [user |-> <<"2", "/">> \o S_minute, anon |-> <<"3", "/">> \o S_minute]

RatesMinute3 == [user |-> <<"3", "/">> \o S_minute, anon |-> <<"3", "/">> \o S_minute]

RatesMalformed == [user |-> <<"2", "/", "w", "e", "e", "k">>, anon |-> <<"x", "/">> \o S_hour]

RatesMissing == [user |-> <<"1", "0">>, anon |-> <<>>]

RateTables == {DEFAULT_THROTTLE_RATES, RatesSecond, RatesMalformed, RatesMissing}

(***************************************************************************)
(* Requests: request.user.is_authenticated, request.user.id and the two    *)
(* META entries the throttle reads (None when absent).                     *)
(***************************************************************************)
Request(auth, uid, xff, remote) == [auth |-> auth, uid |-> uid, xff |-> xff, remote |-> remote]

Requests ==
  << Request(TRUE, 1, PyNone, <<"9", ".", "9">>),
     Request(TRUE, 2, PyNone, <<"9", ".", "9">>),
     Request(FALSE, 0, <<" ", "7", ".", "7", " ", ",", "8", ".", "8">>, <<"9", ".", "9">>) >>

RequestIds == DOMAIN Requests

(***************************************************************************)
(* CustomThrottle                                                          *)
(***************************************************************************)
\* self.ident before allow_request has set it
Unset == <<"unset">>

\* CustomThrottle.__init__
NewThrottle == [rate |-> PyNone, history |-> PyDict, ident |-> Unset]

\* get_client_ip without the strip() of the first entry
get_client_ip_no_strip(request) ==
  IF StrTruthy(request.xff) THEN Split(request.xff, ",")[1] ELSE request.remote

\* CustomThrottle.get_client_ip
get_client_ip(request) ==
  IF StrTruthy(request.xff) THEN Strip(Split(request.xff, ",")[1]) ELSE request.remote

\* CustomThrottle.get_ident
get_ident(request) ==
  IF request.auth THEN NatToStr(request.uid) ELSE get_client_ip(request)

\* CustomThrottle.get_rate, reading the configured table
get_rate(request, table) == IF request.auth THEN table.user ELSE table.anon

\* parse_rate that takes a period name it does not know for a second
parse_rate_default_period(rate) ==
  IF IsNone(rate) THEN [exc |-> "ValidationError", num |-> 0, period |-> 0]
  ELSE LET parts == Split(rate, "/")
       IN IF Len(parts) # 2 THEN [exc |-> "ValidationError", num |-> 0, period |-> 0]
          ELSE LET num == PyInt(parts[1])
                   period == parts[2]
               IN IF num.exc # "none" THEN [exc |-> "ValidationError", num |-> 0, period |-> 0]
                  ELSE IF period = S_minute THEN [exc |-> "none", num |-> num.val, period |-> 60]
                  ELSE IF period = S_hour THEN [exc |-> "none", num |-> num.val, period |-> 3600]
                  ELSE IF period = S_day THEN [exc |-> "none", num |-> num.val, period |-> 86400]
                  ELSE [exc |-> "none", num |-> num.val, period |-> 1]

\* CustomThrottle.parse_rate: [exc, num, period]
parse_rate(rate) ==
  IF IsNone(rate) THEN [exc |-> "ValidationError", num |-> 0, period |-> 0]
  ELSE LET parts == Split(rate, "/")
       IN IF Len(parts) # 2 THEN [exc |-> "ValidationError", num |-> 0, period |-> 0]
          ELSE LET num == PyInt(parts[1])
                   period == parts[2]
               IN IF num.exc # "none" THEN [exc |-> "ValidationError", num |-> 0, period |-> 0]
                  ELSE IF period = S_second THEN [exc |-> "none", num |-> num.val, period |-> 1]
                  ELSE IF period = S_minute THEN [exc |-> "none", num |-> num.val, period |-> 60]
                  ELSE IF period = S_hour THEN [exc |-> "none", num |-> num.val, period |-> 3600]
                  ELSE IF period = S_day THEN [exc |-> "none", num |-> num.val, period |-> 86400]
                  ELSE [exc |-> "ValidationError", num |-> 0, period |-> 0]

\* self.cache_format.format(ident=self.ident, rate=self.rate)
cache_key(ident, rate) == S_throttle_ \o FormatStr(ident) \o <<"_">> \o FormatStr(rate)

(***************************************************************************)
(* common/utils.py: cache_result.  The call to the cache backend is a      *)
(* comment in the source, so nothing is written and nothing is read back:  *)
(* the function returns True, or False when its body raises (fail).        *)
(* The store is what a backend behind it would hold: prefixed key -> value.*)
(***************************************************************************)
EmptyStore == [k \in {} |-> PyDict]

cache_result(st, key, value, ttl, fail) ==
  LET prefixed_key == CACHE_PREFIX \o key
  IN IF fail THEN [ret |-> PyBool(FALSE), store |-> st]
     ELSE [ret |-> PyBool(TRUE), store |-> st]

\* the value a backend holds under a throttle key (None when it holds none)
Stored(st, key) ==
  IF (CACHE_PREFIX \o key) \in DOMAIN st THEN st[CACHE_PREFIX \o key] ELSE PyBool(FALSE)

HasStored(st, key) == (CACHE_PREFIX \o key) \in DOMAIN st

(***************************************************************************)
(* CustomThrottle.allow_request                                            *)
(***************************************************************************)
\* while history and history[-1] <= now - period: history.pop()
\* [exc, hist]: subscripting a bool raises TypeError
RECURSIVE PruneList(_, _, _)
PruneList(l, now, period) ==
  IF Len(l) > 0 /\ l[Len(l)] <= now - period
  THEN PruneList(SubSeq(l, 1, Len(l) - 1), now, period)
  ELSE l

Prune(history, now, period) ==
  IF history.t = "list" THEN [exc |-> "none", hist |-> PyList(PruneList(history.l, now, period))]
  ELSE IF Truthy(history) THEN [exc |-> "TypeError", hist |-> history]
  ELSE [exc |-> "none", hist |-> history]

\* len(history) >= num_requests: [exc, over]; len() of a bool raises TypeError
OverLimit(history, num_requests) ==
  IF history.t = "bool" THEN [exc |-> "TypeError", over |-> FALSE]
  ELSE [exc |-> "none", over |-> Len(history.l) >= num_requests]

\* the try block after the fetch: [exc, ret, store, passed]; passed says that
\* the limit check was evaluated and found the window below the limit
throttle_after_fetch(st, key, history, num_requests, period, now, failSet) ==
  LET pruned == Prune(history, now, period)
      over == OverLimit(pruned.hist, num_requests)
  IN IF pruned.exc # "none"
     THEN [exc |-> pruned.exc, ret |-> FALSE, store |-> st, passed |-> FALSE]
     ELSE IF over.exc # "none"
     THEN [exc |-> over.exc, ret |-> FALSE, store |-> st, passed |-> FALSE]
     ELSE IF over.over THEN [exc |-> "none", ret |-> FALSE, store |-> st, passed |-> FALSE]
     ELSE LET put == cache_result(st, key, PyList(<<now>> \o pruned.hist.l), period, failSet)
          IN [exc |-> "none", ret |-> TRUE, store |-> put.store, passed |-> TRUE]

\* the body of the try block: [exc, ret, store, passed]
throttle_try(st, key, num_requests, period, now, failGet, failSet) ==
  LET got == cache_result(st, key, PyList(<<>>), period, failGet)
  IN throttle_after_fetch(got.store, key, got.ret, num_requests, period, now, failSet)

\* allow_request with parse_rate inside the try block, its error swallowed
allow_request_swallow_parse(self, request, table, st, now, failGet, failSet) ==
  LET rate == get_rate(request, table)
      self1 == [self EXCEPT !.rate = rate]
  IN IF ~StrTruthy(rate) THEN [exc |-> "none", ret |-> TRUE, self |-> self1, store |-> st]
     ELSE LET ident == get_ident(request)
              self2 == [self1 EXCEPT !.ident = ident]
              parsed == parse_rate(rate)
          IN IF parsed.exc # "none"
             THEN [exc |-> "none", ret |-> TRUE, self |-> self2, store |-> st]
             ELSE LET key == cache_key(ident, rate)
                      body == throttle_try(st, key, parsed.num, parsed.period, now, failGet, failSet)
                  IN IF body.exc # "none"
                     THEN [exc |-> "none", ret |-> TRUE, self |-> self2, store |-> body.store]
                     ELSE [exc |-> "none", ret |-> body.ret, self |-> self2, store |-> body.store]

\* allow_request keeping the window in self.history, whoever the caller is
allow_request_instance_history(self, request, table, st, now, failGet, failSet) ==
  LET rate == get_rate(request, table)
      self1 == [self EXCEPT !.rate = rate]
  IN IF ~StrTruthy(rate) THEN [exc |-> "none", ret |-> TRUE, self |-> self1, store |-> st]
     ELSE LET ident == get_ident(request)
              self2 == [self1 EXCEPT !.ident = ident]
              parsed == parse_rate(rate)
          IN IF parsed.exc # "none"
             THEN [exc |-> parsed.exc, ret |-> FALSE, self |-> self2, store |-> st]
             ELSE LET pruned == PruneList(self.history.l, now, parsed.period)
                  IN IF Len(pruned) >= parsed.num
                     THEN [exc |-> "none", ret |-> FALSE, store |-> st,
                           self |-> [self2 EXCEPT !.history = PyList(pruned)]]
                     ELSE [exc |-> "none", ret |-> TRUE, store |-> st,
                           self |-> [self2 EXCEPT !.history = PyList(<<now>> \o pruned)]]

\* allow_request with an except clause that denies the request
allow_request_fail_closed(self, request, table, st, now, failGet, failSet) ==
  LET rate == get_rate(request, table)
      self1 == [self EXCEPT !.rate = rate]
  IN IF ~StrTruthy(rate) THEN [exc |-> "none", ret |-> TRUE, self |-> self1, store |-> st]
     ELSE LET ident == get_ident(request)
              self2 == [self1 EXCEPT !.ident = ident]
              parsed == parse_rate(rate)
          IN IF parsed.exc # "none"
             THEN [exc |-> parsed.exc, ret |-> FALSE, self |-> self2, store |-> st]
             ELSE LET key == cache_key(ident, rate)
                      body == throttle_try(st, key, parsed.num, parsed.period, now, failGet, failSet)
                  IN IF body.exc # "none"
                     THEN [exc |-> "none", ret |-> FALSE, self |-> self2, store |-> body.store]
                     ELSE [exc |-> "none", ret |-> body.ret, self |-> self2, store |-> body.store]

\* allow_request: [exc, ret, self, store].  parse_rate is called outside the
\* try block; any exception inside it is logged and the request allowed.
allow_request(self, request, table, st, now, failGet, failSet) ==
  LET rate == get_rate(request, table)
      self1 == [self EXCEPT !.rate = rate]
  IN IF ~StrTruthy(rate) THEN [exc |-> "none", ret |-> TRUE, self |-> self1, store |-> st]
     ELSE LET ident == get_ident(request)
              self2 == [self1 EXCEPT !.ident = ident]
              parsed == parse_rate(rate)
          IN IF parsed.exc # "none"
             THEN [exc |-> parsed.exc, ret |-> FALSE, self |-> self2, store |-> st]
             ELSE LET key == cache_key(ident, rate)
                      body == throttle_try(st, key, parsed.num, parsed.period, now, failGet, failSet)
                  IN IF body.exc # "none"
                     THEN [exc |-> "none", ret |-> TRUE, self |-> self2, store |-> body.store]
                     ELSE [exc |-> "none", ret |-> body.ret, self |-> self2, store |-> body.store]

\* wait without the test of self.history
wait_unguarded(self, now) ==
  LET parsed == parse_rate(self.rate)
  IN IF parsed.exc # "none" THEN [exc |-> parsed.exc, none |-> TRUE, val |-> 0]
     ELSE IF self.history.t # "list" \/ Len(self.history.l) = 0
     THEN [exc |-> "KeyError", none |-> TRUE, val |-> 0]
     ELSE LET oldest_request == self.history.l[Len(self.history.l)]
              wait_time == oldest_request + parsed.period - now
          IN IF wait_time > 0 THEN [exc |-> "none", none |-> FALSE, val |-> wait_time]
             ELSE [exc |-> "none", none |-> TRUE, val |-> 0]

\* CustomThrottle.wait: [exc, none, val]
wait(self, now) ==
  IF ~Truthy(self.history) THEN [exc |-> "none", none |-> TRUE, val |-> 0]
  ELSE LET parsed == parse_rate(self.rate)
       IN IF parsed.exc # "none" THEN [exc |-> parsed.exc, none |-> TRUE, val |-> 0]
          ELSE IF self.history.t # "list" THEN [exc |-> "KeyError", none |-> TRUE, val |-> 0]
          ELSE LET oldest_request == self.history.l[Len(self.history.l)]
                   wait_time == oldest_request + parsed.period - now
               IN IF wait_time > 0 THEN [exc |-> "none", none |-> FALSE, val |-> wait_time]
                  ELSE [exc |-> "none", none |-> TRUE, val |-> 0]

(***************************************************************************)
(* State.                                                                  *)
(***************************************************************************)
VARIABLES
  clock,     \* time(), in seconds
  rates,     \* the configured rate table
  store,     \* what the cache backend holds
  thr,       \* the CustomThrottle instances
  used,      \* whether allow_request was ever called on the instance
  log,       \* the completed allow_request calls: request, time, result
  faults,    \* whether the body of cache_result has raised in some call so far
  last,      \* the allow_request or wait call that completed last
  call,      \* the allow_request call each thread is in the middle of
  done,      \* the allow_request calls the threads have completed
  pcall,     \* the call of parse_rate, get_ident or get_rate made last
  resp,      \* the SchemaView.get_schema call made last
  task,      \* the ai_service task: the object in memory and its database row
  post,      \* the marketing_service post: the object in memory and its database row
  camp,      \* the CampaignPost rows and the add_post call made last
  ver        \* api/versioning.py: request_history and the allow_request call made last

vars == <<clock, rates, store, thr, used, log, faults, last, call, done, pcall, resp, task, post,
         camp, ver>>

\* the state of the throttle
throttleVars == <<clock, rates, store, thr, used, log, faults, last, call, done>>

\* the state outside the throttle
appVars == <<pcall, resp, task, post, camp, ver>>

Instances == {1, 2}

TickSteps == {1}

\* the instance the sequential callers use
SeqInstances == {1}

\* a thread that is in no call
IdleCall ==
  [pc |-> "idle", r |-> 0, key |-> <<>>, num |-> 0, period |-> 0, history |-> PyBool(FALSE),
   raced |-> FALSE, fresh |-> FALSE, failed |-> FALSE]

NoCall ==
  [op |-> "none", i |-> 0, r |-> 0, failed |-> FALSE, res |-> "none", fresh |-> FALSE, val |-> 0]

\* the outcome of allow_request: the exception it raises, or "True", "False"
ResultOf(out) == IF out.exc # "none" THEN out.exc ELSE IF out.ret THEN "True" ELSE "False"

\* the outcome of wait: the exception it raises, or "None", "Seconds"
WaitResultOf(out) == IF out.exc # "none" THEN out.exc ELSE IF out.none THEN "None" ELSE "Seconds"

\* no call of parse_rate, get_ident or get_rate made yet
NoPureCall == [fn |-> "none"]

\* no get_schema call made yet
NoResponse == [status_code |-> 0]

\* no task object
NoTask == [kind |-> "none"]

\* no post object
NoPost == [platform |-> "none"]

\* no campaign: no CampaignPost row, no add_post call made
NoCampaign == [rows |-> EmptyBag, op |-> "none"]

\* versioning as the module is loaded: request_history = {}, no call made
NoVersioning == [request_history |-> <<>>, admitted |-> <<>>, op |-> "none"]

InitWith(tables) ==
  /\ clock = 0
  /\ rates \in tables
  /\ store = EmptyStore
  /\ thr = [i \in Instances |-> NewThrottle]
  /\ used = [i \in Instances |-> FALSE]
  /\ log = <<>>
  /\ faults = FALSE
  /\ last = NoCall
  /\ call = [t \in Instances |-> IdleCall]
  /\ done = <<>>
  /\ pcall = NoPureCall
  /\ resp = NoResponse
  /\ task = NoTask
  /\ post = NoPost
  /\ camp = NoCampaign
  /\ ver = NoVersioning

Init == InitWith(RateTables)

\* time passes
Tick(d) ==
  /\ clock + d <= MaxClock
  /\ clock' = clock + d
  /\ UNCHANGED <<rates, store, thr, used, log, faults, last, call, done>>
  /\ UNCHANGED appVars

\* a throttle instance is constructed anew
Construct(i) ==
  /\ used[i]
  /\ thr' = [thr EXCEPT ![i] = NewThrottle]
  /\ used' = [used EXCEPT ![i] = FALSE]
  /\ UNCHANGED <<clock, rates, store, log, faults, last, call, done>>
  /\ UNCHANGED appVars

\* one whole allow_request call on instance i for request r; failGet and
\* failSet say whether the body of the first and of the second cache_result
\* call raises
DoAllowRequest(i, r, failGet, failSet) ==
  /\ LET out == allow_request(thr[i], Requests[r], rates, store, clock, failGet, failSet)
     IN /\ thr' = [thr EXCEPT ![i] = out.self]
        /\ store' = out.store
        /\ log' = Append(log, [r |-> r, t |-> clock, res |-> ResultOf(out)])
        /\ last' = [NoCall EXCEPT !.op = "allow", !.i = i, !.r = r,
                                  !.failed = failGet \/ failSet, !.res = ResultOf(out)]
  /\ used' = [used EXCEPT ![i] = TRUE]
  /\ faults' = (faults \/ failGet \/ failSet)
  /\ UNCHANGED <<clock, rates, call, done>>

AllowRequest(i, r, failGet, failSet) ==
  /\ Len(log) < MaxCalls
  /\ DoAllowRequest(i, r, failGet, failSet)
  /\ UNCHANGED appVars

\* one wait() call on instance i
Wait(i) ==
  /\ LET out == wait(thr[i], clock)
     IN last' = [NoCall EXCEPT !.op = "wait", !.i = i, !.fresh = ~used[i],
                               !.res = WaitResultOf(out), !.val = out.val]
  /\ UNCHANGED <<clock, rates, store, thr, used, log, faults, call, done>>
  /\ UNCHANGED appVars

Next ==
  \/ \E d \in TickSteps : Tick(d)
  \/ \E i \in SeqInstances : Construct(i)
  \/ \E i \in SeqInstances, r \in RequestIds, failGet \in BOOLEAN, failSet \in BOOLEAN :
       AllowRequest(i, r, failGet, failSet)
  \/ \E i \in SeqInstances : Wait(i)

Spec == Init /\ [][Next]_vars

(***************************************************************************)
(* The same throttle on a one-minute period: one authenticated caller, a   *)
(* cache_result whose body does not raise, and a clock that moves in the   *)
(* steps of the documented scenarios (0, 5, 10, 61 and 0, 10, 20, 61).     *)
(***************************************************************************)
MinuteSteps == {5, 10, 41, 51}

InitMinute == InitWith({RatesMinute, RatesMinute3})

TickMinute(d) ==
  /\ clock + d <= MaxMinuteClock
  /\ clock' = clock + d
  /\ UNCHANGED <<rates, store, thr, used, log, faults, last, call, done>>
  /\ UNCHANGED appVars

AllowRequestMinute(i, r) ==
  /\ Len(log) < MaxMinuteCalls
  /\ DoAllowRequest(i, r, FALSE, FALSE)
  /\ UNCHANGED appVars

NextMinute ==
  \/ \E d \in MinuteSteps : TickMinute(d)
  \/ \E i \in SeqInstances : AllowRequestMinute(i, 1)
  \/ \E i \in SeqInstances : Wait(i)

SpecMinute == InitMinute /\ [][NextMinute]_vars

(***************************************************************************)
(* Concurrent callers.  Each thread runs allow_request on its own          *)
(* instance; the calls interleave at the round trips to cache_result: a    *)
(* call begins (lines 152-167), fetches (line 171), and finishes (lines    *)
(* 174-198: prune, limit check, insert and write, or the except clause).   *)
(* Nothing orders the steps of different threads.                          *)
(***************************************************************************)
InFlight == {t \in Instances : call[t].pc # "idle"}

\* a completed call: request, completion time, result, whether it passed the
\* limit check, whether it fetched while another call of the same key was
\* between its fetch and its write, whether its identity had completed no
\* call when it fetched, whether the body of cache_result raised in it
Completed(r, res, passed, c) ==
  [r |-> r, t |-> clock, res |-> res, passed |-> passed, raced |-> c.raced,
   fresh |-> c.fresh, failed |-> c.failed]

\* lines 152-167: select the rate, resolve the identity, parse the rate
CBegin(t, r) ==
  /\ call[t].pc = "idle"
  /\ Len(done) + Cardinality(InFlight) < MaxConcCalls
  /\ LET rate == get_rate(Requests[r], rates)
         ident == get_ident(Requests[r])
         parsed == parse_rate(rate)
     IN IF ~StrTruthy(rate)
        THEN /\ thr' = [thr EXCEPT ![t].rate = rate]
             /\ done' = Append(done, Completed(r, "True", FALSE, IdleCall))
             /\ call' = call
        ELSE /\ thr' = [thr EXCEPT ![t].rate = rate, ![t].ident = ident]
             /\ IF parsed.exc # "none"
                THEN /\ done' = Append(done, Completed(r, parsed.exc, FALSE, IdleCall))
                     /\ call' = call
                ELSE /\ done' = done
                     /\ call' = [call EXCEPT ![t] =
                          [IdleCall EXCEPT !.pc = "fetch", !.r = r,
                                           !.key = cache_key(ident, rate),
                                           !.num = parsed.num, !.period = parsed.period]]
  /\ used' = [used EXCEPT ![t] = TRUE]
  /\ UNCHANGED <<clock, rates, store, log, faults, last>>
  /\ UNCHANGED appVars

\* line 171: history = cache_result(cache_key, [], period)
CFetch(t, fail) ==
  /\ call[t].pc = "fetch"
  /\ LET got == cache_result(store, call[t].key, PyList(<<>>), call[t].period, fail)
         racing == {u \in Instances \ {t} : call[u].pc = "check" /\ call[u].key = call[t].key}
         fresh == \A k \in 1..Len(done) : done[k].r # call[t].r
     IN /\ store' = got.store
        /\ call' = [u \in Instances |->
             IF u = t
             THEN [call[t] EXCEPT !.pc = "check", !.history = got.ret,
                                  !.raced = (racing # {}), !.fresh = fresh, !.failed = fail]
             ELSE IF u \in racing THEN [call[u] EXCEPT !.raced = TRUE]
             ELSE call[u]]
  /\ UNCHANGED <<clock, rates, thr, used, log, faults, last, done>>
  /\ UNCHANGED appVars

\* lines 174-198: the rest of the try block and the except clause
CFinish(t, fail) ==
  /\ call[t].pc = "check"
  /\ LET c == [call[t] EXCEPT !.failed = call[t].failed \/ fail]
         body == throttle_after_fetch(store, c.key, c.history, c.num, c.period, clock, fail)
         res == IF body.exc # "none" THEN "True" ELSE IF body.ret THEN "True" ELSE "False"
     IN /\ store' = body.store
        /\ done' = Append(done, Completed(c.r, res, body.passed, c))
  /\ call' = [call EXCEPT ![t] = IdleCall]
  /\ UNCHANGED <<clock, rates, thr, used, log, faults, last>>
  /\ UNCHANGED appVars

NextConc ==
  \/ \E d \in TickSteps : Tick(d)
  \/ \E t \in Instances, r \in RequestIds : CBegin(t, r)
  \/ \E t \in Instances, fail \in BOOLEAN : CFetch(t, fail)
  \/ \E t \in Instances, fail \in BOOLEAN : CFinish(t, fail)

SpecConc == Init /\ [][NextConc]_vars

(***************************************************************************)
(* Vocabulary of the properties.                                           *)
(***************************************************************************)
\* the rate string selected for request r
RateOf(r) == get_rate(Requests[r], rates)

\* request r is subject to a limit: a rate is configured and it parses
Limited(r) == StrTruthy(RateOf(r)) /\ parse_rate(RateOf(r)).exc = "none"

LimitOf(r) == parse_rate(RateOf(r)).num

PeriodOf(r) == parse_rate(RateOf(r)).period

\* the cache key of request r
KeyOf(r) == cache_key(get_ident(Requests[r]), RateOf(r))

\* the completed calls of the identity of request r, in order
CallsOf(r) == SelectSeq(log, LAMBDA e : e.r = r)

\* the calls before the k-th of a sequence of calls that were admitted
AdmittedBefore(calls, k) == {j \in 1..(k - 1) : calls[j].res = "True"}

(***************************************************************************)
(* C1: for a fresh identity with rate L per P, and no failure of the       *)
(* store, the first L sequential calls made within less than P seconds     *)
(* all return true and the (L+1)-th returns false.                         *)
(***************************************************************************)
C1_FirstLAdmittedNextDenied ==
  \A r \in RequestIds :
    (Limited(r) /\ LimitOf(r) > 0 /\ ~faults) =>
      \A k \in 1..Len(CallsOf(r)) :
        (CallsOf(r)[k].t - CallsOf(r)[1].t < PeriodOf(r)) =>
          /\ (k <= LimitOf(r) => CallsOf(r)[k].res = "True")
          /\ (k = LimitOf(r) + 1 => CallsOf(r)[k].res = "False")

(***************************************************************************)
(* C2: a call made more than P seconds after the newest admitted call of   *)
(* its identity returns true; in particular the call after L admissions    *)
(* have used up the limit and the window has expired.                      *)
(***************************************************************************)
C2_Expired(r, k) ==
  \A j \in AdmittedBefore(CallsOf(r), k) : CallsOf(r)[k].t > CallsOf(r)[j].t + PeriodOf(r)

C2_AdmittedAfterExpiry ==
  \A r \in RequestIds :
    (Limited(r) /\ LimitOf(r) > 0) =>
      \A k \in 1..Len(CallsOf(r)) : C2_Expired(r, k) => CallsOf(r)[k].res = "True"

C2_Witness ==
  \E r \in RequestIds :
    /\ Limited(r) /\ LimitOf(r) > 0 /\ ~faults
    /\ \E k \in 1..Len(CallsOf(r)) :
         /\ Cardinality(AdmittedBefore(CallsOf(r), k)) = LimitOf(r)
         /\ C2_Expired(r, k)
         /\ CallsOf(r)[k].res = "True"

(***************************************************************************)
(* C3: partial expiry.  At 2/minute, calls of one identity at 0, 5, 10, 61 *)
(* return true, true, false, true and leave the stored window [0], [5,0],  *)
(* [5,0], [61,5]; at 3/minute, after calls at 0, 10, 20 the call at 61 is  *)
(* admitted.                                                               *)
(***************************************************************************)
C3_Times == <<0, 5, 10, 61>>

C3_Results == <<"True", "True", "False", "True">>

C3_Windows == << <<0>>, <<5, 0>>, <<5, 0>>, <<61, 5>> >>

C3_PartialExpiry ==
  LET calls == CallsOf(1)
      n == Len(calls)
  IN /\ (/\ rates = RatesMinute
         /\ n \in 1..4
         /\ \A k \in 1..n : calls[k].t = C3_Times[k])
        => /\ \A k \in 1..n : calls[k].res = C3_Results[k]
           /\ Stored(store, KeyOf(1)) = PyList(C3_Windows[n])
     /\ (/\ rates = RatesMinute3
         /\ n = 4
         /\ calls[1].t = 0 /\ calls[2].t = 10 /\ calls[3].t = 20 /\ calls[4].t = 61)
        => calls[4].res = "True"

(***************************************************************************)
(* C5: when allow_request admits a request at time now, the window with    *)
(* now at its head is persisted under the identity's key, so that a fetch  *)
(* of that key before the expiry returns a sequence whose head is now.     *)
(***************************************************************************)
C5_AdmittedIsPersisted ==
  (/\ last.op = "allow" /\ last.res = "True" /\ ~last.failed
   /\ Limited(last.r)
   /\ clock - log[Len(log)].t < PeriodOf(last.r))
  => LET now == log[Len(log)].t
         key == KeyOf(last.r)
         fetched == cache_result(store, key, PyList(<<>>), PeriodOf(last.r), FALSE).ret
     IN /\ HasStored(store, key)
        /\ Stored(store, key).t = "list"
        /\ Len(Stored(store, key).l) > 0
        /\ Head(Stored(store, key).l) = now
        /\ fetched.t = "list"
        /\ Len(fetched.l) > 0
        /\ Head(fetched.l) = now

(***************************************************************************)
(* C6: when the body of a cache_result call raises during allow_request    *)
(* (the window read or the window write), allow_request returns true and   *)
(* raises nothing.                                                         *)
(***************************************************************************)
C6_StoreErrorFailsOpen ==
  (last.op = "allow" /\ last.failed /\ Limited(last.r)) => last.res = "True"

C6_Witness ==
  last.op = "allow" /\ last.failed /\ Limited(last.r) /\ last.res = "True"

(***************************************************************************)
(* C7: when the rate string selected for the request is malformed,         *)
(* allow_request raises ValidationError instead of admitting the request.  *)
(***************************************************************************)
\* the malformed rates of the tables: an unknown period, a count that is no
\* integer, a rate without a period
MalformedRates == {RatesMalformed.user, RatesMalformed.anon, RatesMissing.user}

C7_MalformedRatePropagates ==
  (last.op = "allow" /\ RateOf(last.r) \in MalformedRates) => last.res = "ValidationError"

C7_Witness ==
  /\ last.op = "allow" /\ RateOf(last.r) \in MalformedRates
  /\ last.res = "ValidationError"

(***************************************************************************)
(* C9: identities have independent windows.  The results of the calls of   *)
(* an identity, and the window stored for it, are those of the same calls  *)
(* made alone, whatever calls other identities made in between.            *)
(***************************************************************************)
\* the results of the calls of request r made alone, from store st and an
\* instance self, and the store they leave
RECURSIVE Alone(_, _, _, _)
Alone(r, calls, st, self) ==
  IF Len(calls) = 0 THEN [results |-> <<>>, store |-> st]
  ELSE LET out == allow_request(self, Requests[r], rates, st, Head(calls).t, FALSE, FALSE)
           rest == Alone(r, Tail(calls), out.store, out.self)
       IN [results |-> <<ResultOf(out)>> \o rest.results, store |-> rest.store]

C9_IndependentWindows ==
  ~faults =>
    \A r \in RequestIds :
      LET calls == CallsOf(r)
          alone == Alone(r, calls, EmptyStore, NewThrottle)
      IN /\ [k \in 1..Len(calls) |-> calls[k].res] = alone.results
         /\ Stored(store, KeyOf(r)) = Stored(alone.store, KeyOf(r))

\* identity 1 has made as many admitted calls as its limit, and identity 2,
\* under the same rate, has then been answered
C9_Witness ==
  /\ ~faults /\ Limited(1) /\ LimitOf(1) > 0 /\ RateOf(1) = RateOf(2)
  /\ \E k \in 1..Len(log) :
       /\ log[k].r = 2
       /\ log[k].res = "True"
       /\ Cardinality({j \in 1..(k - 1) : log[j].r = 1 /\ log[j].res = "True"}) >= LimitOf(1)
       /\ \A j \in 1..(k - 1) : log[k].t - log[j].t < PeriodOf(1)

(***************************************************************************)
(* C10: wait() on an instance on which allow_request was never called      *)
(* returns None and raises nothing.                                        *)
(***************************************************************************)
C10_FreshWaitIsNone ==
  (last.op = "wait" /\ last.fresh) => last.res = "None"

C10_Witness ==
  last.op = "wait" /\ last.fresh /\ last.res = "None"

(***************************************************************************)
(* C8: two calls of one identity that both fetch the window before either  *)
(* writes it both pass the limit check and are both admitted, so more      *)
(* requests than the limit are admitted in one period.  Stated for calls   *)
(* of an identity that had completed no call when they fetched, with a     *)
(* limit of at least one and a cache_result whose body does not raise.     *)
(***************************************************************************)
C8_RacingCallsPassLimitCheck ==
  \A k \in 1..Len(done) :
    (/\ done[k].raced /\ done[k].fresh /\ ~done[k].failed
     /\ Limited(done[k].r) /\ LimitOf(done[k].r) >= 1)
    => done[k].passed /\ done[k].res = "True"

\* what the code does there: the racing calls are admitted by the except
\* clause, none of them having reached the limit check
C8_RacingCallsAdmittedByHandler ==
  \A k \in 1..Len(done) :
    (done[k].raced /\ Limited(done[k].r)) => ~done[k].passed /\ done[k].res = "True"

(***************************************************************************)
(* C11: after an allow_request call on the instance has observed a         *)
(* non-empty window, wait() on that instance returns oldest_timestamp +    *)
(* period - now when that is positive and None otherwise.  The window the  *)
(* call observed is taken from the calls themselves: the timestamps of the *)
(* earlier admitted calls of the identity that were less than a period old *)
(* at the call; cache_result raised in no call.                            *)
(***************************************************************************)
\* the smallest element of a non-empty set of numbers
MinOf(S) == CHOOSE x \in S : \A y \in S : x <= y

\* the timestamps of the admitted calls before the last one that the last
\* allow_request call, by the same identity, found unexpired
C11_ObservedWindow ==
  LET n == Len(log)
  IN {log[j].t : j \in {k \in 1..(n - 1) : /\ log[k].r = log[n].r
                                           /\ log[k].res = "True"
                                           /\ log[k].t > log[n].t - PeriodOf(log[n].r)}}

\* wait() was called on an instance whose last allow_request call observed
\* a non-empty window
C11_Case ==
  /\ last.op = "wait" /\ ~last.fresh /\ ~faults
  /\ Len(log) > 0
  /\ Limited(log[Len(log)].r)
  /\ log[Len(log)].res \in {"True", "False"}
  /\ C11_ObservedWindow # {}

C11_WaitIsOldestPlusPeriod ==
  C11_Case =>
    LET remaining == MinOf(C11_ObservedWindow) + PeriodOf(log[Len(log)].r) - clock
    IN IF remaining > 0
       THEN last.res = "Seconds" /\ last.val = remaining
       ELSE last.res = "None"

\* what the code does there: allow_request never assigns self.history, so
\* wait() finds it empty and returns None
C11_WaitIsAlwaysNone ==
  last.op = "wait" => last.res = "None"

(***************************************************************************)
(* The methods of CustomThrottle that compute from their arguments alone:  *)
(* parse_rate, get_ident (with get_client_ip) and get_rate, each called on *)
(* inputs drawn from bounded sets.  An input is a record of the parts it   *)
(* is built from, so that what a call should return is known from the      *)
(* parts and not from the method.                                          *)
(***************************************************************************)
MaxRateCount == 24

MaxNonPositive == 3

MaxUserId == 11

\* the period names parse_rate knows, and the seconds of each
PeriodNames == <<S_second, S_minute, S_hour, S_day>>

PeriodSeconds == <<1, 60, 3600, 86400>>

\* N/period with N a positive integer written in decimal digits
ValidRates ==
  {[text |-> NatToStr(n) \o <<"/">> \o PeriodNames[p], form |-> "valid", n |-> n, p |-> p] :
     n \in 1..MaxRateCount, p \in DOMAIN PeriodNames}

\* N/period with N = 0 or N negative
NonPositiveRates ==
  {[text |-> (IF n = 0 THEN <<"0">> ELSE <<"-">> \o NatToStr(n)) \o <<"/">> \o PeriodNames[p],
    form |-> "nonpositive", n |-> 0 - n, p |-> p] :
     n \in 0..MaxNonPositive, p \in DOMAIN PeriodNames}

\* strings that do not split into two tokens at '/'
WrongTokenTexts ==
  { <<"1", "0">>,
    <<>>,
    <<"h", "o", "u", "r">>,
    <<"1", "0", "/", "h", "o", "u", "r", "/", "2">>,
    <<"1", "/", "2", "/", "h", "o", "u", "r">>,
    <<"1", "0", "/", "/", "h", "o", "u", "r">> }

\* two tokens, a known period, a count that is no integer
NonIntegerTexts ==
  { <<"x", "/", "h", "o", "u", "r">>,
    <<"/", "h", "o", "u", "r">>,
    <<"1", ".", "5", "/", "m", "i", "n", "u", "t", "e">>,
    <<"t", "e", "n", "/", "d", "a", "y">>,
    <<"1", " ", "0", "/", "h", "o", "u", "r">>,
    <<"0", "x", "1", "0", "/", "h", "o", "u", "r">>,
    <<"1", "0", "-", "/", "d", "a", "y">>,
    <<"-", "-", "1", "/", "h", "o", "u", "r">> }

\* two tokens, an integer count, a period name parse_rate does not know
UnknownPeriodTexts ==
  { <<"1", "0", "/", "w", "e", "e", "k">>,
    <<"1", "0", "/">>,
    <<"1", "0", "/", "H", "o", "u", "r">>,
    <<"1", "0", "/", "h", "o", "u", "r", "s">>,
    <<"1", "0", "/", " ", "h", "o", "u", "r">>,
    <<"1", "0", "/", "h">>,
    <<"1", "0", "/", "s", "e", "c", "o", "n", "d", "s">>,
    <<"1", "0", "/", "6", "0">> }

MalformedRateInputs ==
  {[text |-> t, form |-> "tokens", n |-> 0, p |-> 0] : t \in WrongTokenTexts}
  \cup {[text |-> t, form |-> "count", n |-> 0, p |-> 0] : t \in NonIntegerTexts}
  \cup {[text |-> t, form |-> "period", n |-> 0, p |-> 0] : t \in UnknownPeriodTexts}

\* counts that int() accepts although they are not plain decimal digits:
\* surrounding whitespace, a plus sign, an underscore, leading zeros
LenientRates ==
  { [text |-> <<" ", "7", " ", "/", "h", "o", "u", "r">>, form |-> "lenient", n |-> 7, p |-> 3],
    [text |-> <<"+", "3", "/", "m", "i", "n", "u", "t", "e">>, form |-> "lenient", n |-> 3, p |-> 2],
    [text |-> <<"1", "_", "0", "/", "d", "a", "y">>, form |-> "lenient", n |-> 10, p |-> 4],
    [text |-> <<"0", "0", "7", "/", "s", "e", "c", "o", "n", "d">>, form |-> "lenient", n |-> 7, p |-> 1] }

RateInputs == ValidRates \cup NonPositiveRates \cup MalformedRateInputs \cup LenientRates

\* one parse_rate call
CallParseRate(x) ==
  /\ pcall' = [fn |-> "parse_rate", in |-> x, out |-> parse_rate(x.text)]
  /\ UNCHANGED <<throttleVars, resp, task, post, camp, ver>>

\* the parts a request is built from: whether the caller is authenticated,
\* the user id, whether X-Forwarded-For is sent, its first entry, the
\* whitespace around that entry, the entries after it, and REMOTE_ADDR
\* (None when absent)
FirstEntries == {<<"7", ".", "7">>, <<>>}

Pads == {<<>>, <<" ">>}

Rests == {<<>>, <<",", "8", ".", "8">>, <<",", " ", "8", ".", "8", " ", ",", "1", ".", "1">>}

Remotes == {PyNone, <<"9", ".", "9">>}

IdentInput(auth, uid, hasXff, first, lpad, rpad, rest, remote) ==
  [auth |-> auth, uid |-> uid, hasXff |-> hasXff, first |-> first,
   lpad |-> lpad, rpad |-> rpad, rest |-> rest, remote |-> remote]

IdentInputs ==
  {IdentInput(TRUE, u, h, <<"7", ".", "7">>, <<>>, <<>>, <<>>, r) :
     u \in 1..MaxUserId, h \in BOOLEAN, r \in Remotes}
  \cup {IdentInput(FALSE, 0, FALSE, <<>>, <<>>, <<>>, <<>>, r) : r \in Remotes}
  \cup {IdentInput(FALSE, 0, TRUE, f, l[1], l[2], t, r) :
          f \in FirstEntries, l \in Pads \X Pads, t \in Rests, r \in Remotes}

\* the X-Forwarded-For header of an input
HeaderOf(q) == q.lpad \o q.first \o q.rpad \o q.rest

\* the request object of an input
RequestOf(q) == Request(q.auth, q.uid, IF q.hasXff THEN HeaderOf(q) ELSE PyNone, q.remote)

\* one get_ident call
CallGetIdent(q) ==
  /\ pcall' = [fn |-> "get_ident", in |-> q, out |-> get_ident(RequestOf(q))]
  /\ UNCHANGED <<throttleVars, resp, task, post, camp, ver>>

\* one get_rate call
CallGetRate(q) ==
  /\ pcall' = [fn |-> "get_rate", in |-> q, out |-> get_rate(RequestOf(q), rates)]
  /\ UNCHANGED <<throttleVars, resp, task, post, camp, ver>>

InitPure == InitWith(RateTables)

NextPure ==
  \/ \E x \in RateInputs : CallParseRate(x)
  \/ \E q \in IdentInputs : CallGetIdent(q)
  \/ \E q \in IdentInputs : CallGetRate(q)

SpecPure == InitPure /\ [][NextPure]_vars

(***************************************************************************)
(* C12: parse_rate maps N/period, N a positive integer and period one of   *)
(* second, minute, hour, day, to (N, 1 | 60 | 3600 | 86400), and raises    *)
(* ValidationError for a string that does not split into two tokens at     *)
(* '/', whose count is no integer, or whose period name is not one of the  *)
(* four.                                                                   *)
(***************************************************************************)
C12_ParseRate ==
  pcall.fn = "parse_rate" =>
    /\ pcall.in.form = "valid" =>
         pcall.out = [exc |-> "none", num |-> pcall.in.n, period |-> PeriodSeconds[pcall.in.p]]
    /\ pcall.in.form \in {"tokens", "count", "period"} =>
         pcall.out = [exc |-> "ValidationError", num |-> 0, period |-> 0]

\* a count of two digits per day was parsed
C12_Witness ==
  /\ pcall.fn = "parse_rate" /\ pcall.in.form = "valid"
  /\ pcall.in.n > 9 /\ PeriodNames[pcall.in.p] = S_day
  /\ pcall.out.exc = "none" /\ pcall.out.num = pcall.in.n /\ pcall.out.period = 86400

\* what int() makes of the counts that are not plain digits: it returns
\* their value and parse_rate raises nothing
C12_LenientCountsAccepted ==
  (pcall.fn = "parse_rate" /\ pcall.in.form = "lenient") =>
    pcall.out = [exc |-> "none", num |-> pcall.in.n, period |-> PeriodSeconds[pcall.in.p]]

(***************************************************************************)
(* C13: parse_rate raises ValidationError for N/period with N <= 0 and a   *)
(* valid period name, so every rate it returns has a count above zero.     *)
(***************************************************************************)
C13_NonPositiveCountRaises ==
  pcall.fn = "parse_rate" =>
    /\ pcall.in.form = "nonpositive" => pcall.out.exc = "ValidationError"
    /\ pcall.out.exc = "none" => pcall.out.num > 0

\* what the code does there: the count is returned as int() read it
C13_NonPositiveCountReturned ==
  (pcall.fn = "parse_rate" /\ pcall.in.form = "nonpositive") =>
    pcall.out = [exc |-> "none", num |-> pcall.in.n, period |-> PeriodSeconds[pcall.in.p]]

(***************************************************************************)
(* C14: get_ident returns the user id as a string for an authenticated     *)
(* request; for an unauthenticated request the first comma-separated entry *)
(* of X-Forwarded-For, trimmed of whitespace, when the header is present,  *)
(* and REMOTE_ADDR otherwise.  get_rate returns the 'user' rate for an     *)
(* authenticated and the 'anon' rate for an unauthenticated request.       *)
(***************************************************************************)
\* s is the decimal writing of the number n
IsDecimalOf(s, n) ==
  /\ ~IsNone(s)
  /\ \A k \in DOMAIN s : IsDigit(s[k])
  /\ PyInt(s) = [exc |-> "none", val |-> n]

\* get_ident and get_rate answer as described, the header counting as
\* present when present(q) says so
C14_Answers(present(_)) ==
  LET q == pcall.in
  IN /\ pcall.fn = "get_ident" =>
          IF q.auth THEN IsDecimalOf(pcall.out, q.uid)
          ELSE IF present(q) THEN pcall.out = q.first
          ELSE pcall.out = q.remote
     /\ pcall.fn = "get_rate" =>
          pcall.out = IF q.auth THEN rates.user ELSE rates.anon

\* the claim as stated: the header is present when the request carries it
C14_IdentAndRate == C14_Answers(LAMBDA q : q.hasXff)

\* the header is used when the request carries it with a value that is not
\* the empty string; a header sent empty is treated as absent
C14_IdentAndRateNonEmptyHeader == C14_Answers(LAMBDA q : q.hasXff /\ HeaderOf(q) # <<>>)

\* the first entry was taken out of a header with whitespace around it and
\* entries after it
C14_Witness ==
  /\ pcall.fn = "get_ident" /\ ~pcall.in.auth /\ pcall.in.hasXff
  /\ pcall.in.lpad # <<>> /\ pcall.in.rpad # <<>> /\ pcall.in.rest # <<>>
  /\ pcall.in.first # <<>> /\ pcall.out = pcall.in.first

(***************************************************************************)
(* C15: get_ident never raises and always returns a string; for an         *)
(* unauthenticated request with neither X-Forwarded-For nor REMOTE_ADDR it *)
(* returns the empty string, not None.                                     *)
(***************************************************************************)
C15_IdentIsAlwaysString ==
  pcall.fn = "get_ident" =>
    /\ ~IsNone(pcall.out)
    /\ (~pcall.in.auth /\ ~pcall.in.hasXff /\ IsNone(pcall.in.remote)) => pcall.out = <<>>

\* what the code does there: META.get('REMOTE_ADDR') is returned as it is
C15_IdentIsNoneWithoutAddress ==
  (/\ pcall.fn = "get_ident" /\ ~pcall.in.auth
   /\ ~StrTruthy(RequestOf(pcall.in).xff) /\ IsNone(pcall.in.remote))
  => IsNone(pcall.out)

(***************************************************************************)
(* api/versioning.py and api/schema.py: the version a request asks for in  *)
(* its Accept header, generate_schema, and SchemaView.get_schema, which    *)
(* asks its own CustomThrottle before it generates the schema.             *)
(***************************************************************************)
S_v1 == <<"v", "1">>

S_v2 == <<"v", "2">>

DEFAULT_API_VERSION == S_v1

SUPPORTED_API_VERSIONS == {S_v1, S_v2}

\* the text the pattern 'version=(v\d+)' starts with
S_version_v == <<"v", "e", "r", "s", "i", "o", "n", "=", "v">>

\* the Accept headers of the requests
AcceptHeaders ==
  { <<"a", "p", "p", "l", "i", "c", "a", "t", "i", "o", "n", "/", "j", "s", "o", "n">>,
    <<"a", "p", "p", "l", "i", "c", "a", "t", "i", "o", "n", "/", "j", "s", "o", "n", ";", " ", "v", "e", "r", "s", "i", "o", "n", "=", "v", "1">>,
    <<"a", "p", "p", "l", "i", "c", "a", "t", "i", "o", "n", "/", "j", "s", "o", "n", ";", " ", "v", "e", "r", "s", "i", "o", "n", "=", "v", "2">>,
    <<"a", "p", "p", "l", "i", "c", "a", "t", "i", "o", "n", "/", "j", "s", "o", "n", ";", " ", "v", "e", "r", "s", "i", "o", "n", "=", "v", "9", "9", "9">> }

StartsWith(s, prefix) == Len(s) >= Len(prefix) /\ SubSeq(s, 1, Len(prefix)) = prefix

\* the longest run of digits s starts with: \d+ when it is not empty
RECURSIVE DigitRun(_)
DigitRun(s) ==
  IF Len(s) > 0 /\ IsDigit(Head(s)) THEN <<Head(s)>> \o DigitRun(Tail(s)) ELSE <<>>

\* re.search(r'version=(v\d+)', s): group 1 of the leftmost match, or None
RECURSIVE SearchVersion(_)
SearchVersion(s) ==
  IF Len(s) = 0 THEN PyNone
  ELSE IF /\ StartsWith(s, S_version_v)
          /\ DigitRun(SubSeq(s, Len(S_version_v) + 1, Len(s))) # <<>>
       THEN <<"v">> \o DigitRun(SubSeq(s, Len(S_version_v) + 1, Len(s)))
       ELSE SearchVersion(Tail(s))

\* versioning.validate_version
validate_version(version) == version \in SUPPORTED_API_VERSIONS

\* versioning.get_version_from_request, of the Accept header of the request
get_version_from_request(accept) ==
  LET version_match == SearchVersion(accept)
  IN IF ~IsNone(version_match) /\ validate_version(version_match)
     THEN version_match
     ELSE DEFAULT_API_VERSION

\* what is found at BASE_DIR/api/schemas/<version>/schema.json: no file, a
\* file that holds JSON, a file that json.load cannot read
SchemaFiles ==
  { [v \in SUPPORTED_API_VERSIONS |-> "missing"],
    [v \in SUPPORTED_API_VERSIONS |-> IF v = S_v1 THEN "json" ELSE "missing"],
    [v \in SUPPORTED_API_VERSIONS |-> IF v = S_v1 THEN "corrupt" ELSE "json"] }

\* schema.generate_schema: [exc, version]; hostOk says whether
\* request.get_host() accepts the Host header
generate_schema(accept, hostOk, files) ==
  LET version == get_version_from_request(accept)
  IN IF ~hostOk THEN [exc |-> "DisallowedHost", version |-> version]
     ELSE IF files[version] = "missing" THEN [exc |-> "ValueError", version |-> version]
     ELSE IF files[version] = "corrupt" THEN [exc |-> "JSONDecodeError", version |-> version]
     ELSE [exc |-> "none", version |-> version]

\* the exceptions that `except ValueError` catches
ValueErrors == {"ValueError", "JSONDecodeError"}

\* a response of get_schema: the status code, the retry_after it carries,
\* what allow_request answered, whether the schema was generated
Response(code, retry, allowed, generated) ==
  [status_code |-> code, retry_after |-> retry, allowed |-> allowed, generated |-> generated]

\* SchemaView.get_schema: [response, self, store], self being self.throttle
get_schema(self, request, accept, hostOk, files, table, st, now, failGet, failSet) ==
  LET answer == allow_request(self, request, table, st, now, failGet, failSet)
      allowed == ResultOf(answer)
      retry == wait(answer.self, now)
      schema == generate_schema(accept, hostOk, files)
      none == [none |-> TRUE, val |-> 0]
      response ==
        IF answer.exc \in ValueErrors THEN Response(404, none, allowed, FALSE)
        ELSE IF answer.exc # "none" THEN Response(500, none, allowed, FALSE)
        ELSE IF ~answer.ret
             THEN IF retry.exc \in ValueErrors THEN Response(404, none, allowed, FALSE)
                  ELSE IF retry.exc # "none" THEN Response(500, none, allowed, FALSE)
                  ELSE Response(429, [none |-> retry.none, val |-> retry.val], allowed, FALSE)
        ELSE IF schema.exc \in ValueErrors THEN Response(404, none, allowed, FALSE)
        ELSE IF schema.exc # "none" THEN Response(500, none, allowed, FALSE)
        ELSE Response(200, none, allowed, TRUE)
  IN [response |-> response, self |-> answer.self, store |-> answer.store]

\* the instance SchemaView.__init__ makes for the view
ViewInstance == 1

\* one get_schema call for request r
GetSchema(r, accept, hostOk, files, failGet, failSet) ==
  /\ Len(log) < MaxCalls
  /\ DoAllowRequest(ViewInstance, r, failGet, failSet)
  /\ resp' = get_schema(thr[ViewInstance], Requests[r], accept, hostOk, files,
                        rates, store, clock, failGet, failSet).response
  /\ UNCHANGED <<pcall, task, post, camp, ver>>

InitView == InitWith(RateTables)

NextView ==
  \/ \E d \in TickSteps : Tick(d)
  \/ \E r \in RequestIds, accept \in AcceptHeaders, hostOk \in BOOLEAN, files \in SchemaFiles,
        fail \in BOOLEAN :
       GetSchema(r, accept, hostOk, files, fail, fail)

SpecView == InitView /\ [][NextView]_vars

(***************************************************************************)
(* C16: whenever allow_request returns false for a schema request,         *)
(* get_schema answers 429 with retry_after = wait() and does not generate  *)
(* the schema; it answers 200 only for a request that allow_request        *)
(* admitted.                                                               *)
(***************************************************************************)
C16_ThrottledIs429 ==
  /\ (resp.status_code # 0 /\ resp.allowed = "False") =>
       resp.status_code = 429 /\ ~resp.generated
  /\ resp.status_code = 200 => resp.allowed = "True" /\ resp.generated

\* what the code does there: no call is answered 429, allow_request having
\* returned False in none
C16_NeverThrottled ==
  resp.status_code # 0 => resp.status_code # 429 /\ resp.allowed # "False"

(***************************************************************************)
(* ai_service/models.py: TranscriptionTask.perform_transcription and       *)
(* ContentGenerationTask.generate_content_task.  The two methods have one  *)
(* shape; kind tells them apart.  A task is the object in memory (obj) and *)
(* its database row (db); input is audio_file_path or prompt, text is      *)
(* transcription_text or generated_content.  save(update_fields=...)       *)
(* writes the row, so the method is taken in the steps its saves make      *)
(* visible: up to the first save, and from there to its end.               *)
(***************************************************************************)
TaskKinds == {"transcription", "content"}

S_sample_path == <<"f", "i", "x", "t", "u", "r", "e", "s", "/", "a", ".", "m", "p", "3">>

S_prompt == <<"S", "u", "m", "m", "a", "r", "i", "z", "e">>

\* audio_file_path or prompt: empty, or not
TaskInputs == {<<>>, S_sample_path, S_prompt}

\* "Audio file path is required" / "Prompt is required"
RequiredMessage(kind) ==
  IF kind = "transcription"
  THEN <<"A", "u", "d", "i", "o", " ", "f", "i", "l", "e", " ", "p", "a", "t", "h", " ", "i", "s", " ", "r", "e", "q", "u", "i", "r", "e", "d">>
  ELSE <<"P", "r", "o", "m", "p", "t", " ", "i", "s", " ", "r", "e", "q", "u", "i", "r", "e", "d">>

\* "Transcription failed: " / "Content generation failed: "
FailedPrefix(kind) ==
  IF kind = "transcription"
  THEN <<"T", "r", "a", "n", "s", "c", "r", "i", "p", "t", "i", "o", "n", " ", "f", "a", "i", "l", "e", "d", ":", " ">>
  ELSE <<"C", "o", "n", "t", "e", "n", "t", " ", "g", "e", "n", "e", "r", "a", "t", "i", "o", "n", " ", "f", "a", "i", "l", "e", "d", ":", " ">>

\* "Placeholder for transcribed text" / "Placeholder for generated content"
Placeholder(kind) ==
  IF kind = "transcription"
  THEN <<"P", "l", "a", "c", "e", "h", "o", "l", "d", "e", "r", " ", "f", "o", "r", " ", "t", "r", "a", "n", "s", "c", "r", "i", "b", "e", "d", " ", "t", "e", "x", "t">>
  ELSE <<"P", "l", "a", "c", "e", "h", "o", "l", "d", "e", "r", " ", "f", "o", "r", " ", "g", "e", "n", "e", "r", "a", "t", "e", "d", " ", "c", "o", "n", "t", "e", "n", "t">>

\* the fields of a task as objects.create() leaves them
NewTaskFields == [status |-> "PENDING", text |-> PyNone, error_message |-> PyNone]

\* Model.save(update_fields=...): the row after the save
save(row, obj, update_fields) ==
  [f \in DOMAIN row |-> IF f \in update_fields THEN obj[f] ELSE row[f]]

\* the try block up to the first save: [exc, message, obj, db]
task_start(kind, input, obj, db) ==
  IF ~StrTruthy(input)
  THEN [exc |-> "ValidationError", message |-> RequiredMessage(kind), obj |-> obj, db |-> db]
  ELSE LET o == [obj EXCEPT !.status = "PROCESSING"]
       IN [exc |-> "none", message |-> <<>>, obj |-> o, db |-> save(db, o, {"status"})]

\* the try block after the first save, its second save only in memory
task_complete_unsaved(kind, obj, db) ==
  LET o == [obj EXCEPT !.text = Placeholder(kind), !.status = "COMPLETED"]
  IN [ret |-> Placeholder(kind), obj |-> o, db |-> db]

\* the try block after the first save: [ret, obj, db]
task_complete(kind, obj, db) ==
  LET o == [obj EXCEPT !.text = Placeholder(kind), !.status = "COMPLETED"]
  IN [ret |-> Placeholder(kind), obj |-> o, db |-> save(db, o, {"text", "status"})]

\* the except clause without its save
task_except_unsaved(kind, message, obj, db) ==
  LET o == [obj EXCEPT !.status = "FAILED", !.error_message = message]
  IN [exc |-> "ValidationError", message |-> FailedPrefix(kind) \o message, obj |-> o, db |-> db]

\* the except clause without `self.status = 'FAILED'`
task_except_status_kept(kind, message, obj, db) ==
  LET o == [obj EXCEPT !.error_message = message]
  IN [exc |-> "ValidationError", message |-> FailedPrefix(kind) \o message, obj |-> o,
      db |-> save(db, o, {"status", "error_message"})]

\* the except clause, message being str(e): [exc, message, obj, db]
task_except(kind, message, obj, db) ==
  LET o == [obj EXCEPT !.status = "FAILED", !.error_message = message]
  IN [exc |-> "ValidationError", message |-> FailedPrefix(kind) \o message, obj |-> o,
      db |-> save(db, o, {"status", "error_message"})]

\* what a call has returned or raised: nothing yet
NoOutcome == [exc |-> "none", ret |-> PyNone, message |-> <<>>]

\* a task just created; exists says whether audio_file_path names a file
\* that is there
CreatedTask(kind, input, exists) ==
  [kind |-> kind, input |-> input, exists |-> exists, obj |-> NewTaskFields,
   db |-> NewTaskFields, pc |-> "idle", out |-> NoOutcome, seen |-> <<>>]

InitTasks ==
  /\ clock = 0
  /\ rates = DEFAULT_THROTTLE_RATES
  /\ store = EmptyStore
  /\ thr = [i \in Instances |-> NewThrottle]
  /\ used = [i \in Instances |-> FALSE]
  /\ log = <<>>
  /\ faults = FALSE
  /\ last = NoCall
  /\ call = [t \in Instances |-> IdleCall]
  /\ done = <<>>
  /\ pcall = NoPureCall
  /\ resp = NoResponse
  /\ post = NoPost
  /\ camp = NoCampaign
  /\ ver = NoVersioning
  /\ task \in {CreatedTask(k, i, e) : k \in TaskKinds, i \in TaskInputs, e \in BOOLEAN}

\* the method is called and runs up to its first save, or, the input being
\* empty, through its except clause to its end; seen lists the statuses
\* the object has had during the call, the one it started with first
TaskBegin ==
  /\ task.pc \in {"idle", "done"}
  /\ LET s == task_start(task.kind, task.input, task.obj, task.db)
         x == task_except(task.kind, s.message, s.obj, s.db)
     IN task' =
          IF s.exc # "none"
          THEN [task EXCEPT !.obj = x.obj, !.db = x.db, !.pc = "done",
                            !.out = [exc |-> x.exc, ret |-> PyNone, message |-> x.message],
                            !.seen = <<task.obj.status, x.obj.status>>]
          ELSE [task EXCEPT !.obj = s.obj, !.db = s.db, !.pc = "running",
                            !.out = NoOutcome,
                            !.seen = <<task.obj.status, s.obj.status>>]
  /\ UNCHANGED <<throttleVars, pcall, resp, post, camp, ver>>

\* the method runs from its first save to its end
TaskEnd ==
  /\ task.pc = "running"
  /\ LET c == task_complete(task.kind, task.obj, task.db)
     IN task' = [task EXCEPT !.obj = c.obj, !.db = c.db, !.pc = "done",
                             !.out = [exc |-> "none", ret |-> c.ret, message |-> <<>>],
                             !.seen = Append(task.seen, c.obj.status)]
  /\ UNCHANGED <<throttleVars, pcall, resp, post, camp, ver>>

\* the input of a task that is in no call is changed and saved
TaskEditInput(input, exists) ==
  /\ task.pc \in {"idle", "done"}
  /\ <<input, exists>> # <<task.input, task.exists>>
  /\ task' = [task EXCEPT !.input = input, !.exists = exists, !.pc = "idle",
                          !.out = NoOutcome, !.seen = <<>>]
  /\ UNCHANGED <<throttleVars, pcall, resp, post, camp, ver>>

\* the choices of the status field
TaskStatuses == {"PENDING", "PROCESSING", "COMPLETED", "FAILED"}

\* in place of the task, one created with the given status:
\* objects.create(status=status, ...), the other fields as before
TaskCreateWithStatus(status) ==
  /\ task.pc \in {"idle", "done"}
  /\ LET new == CreatedTask(task.kind, task.input, task.exists)
     IN task' = [new EXCEPT !.obj.status = status, !.db.status = status]
  /\ UNCHANGED <<throttleVars, pcall, resp, post, camp, ver>>

NextTasks ==
  \/ TaskBegin
  \/ TaskEnd
  \/ \E input \in TaskInputs, exists \in BOOLEAN : TaskEditInput(input, exists)
  \/ \E status \in TaskStatuses : TaskCreateWithStatus(status)

SpecTasks == InitTasks /\ [][NextTasks]_vars

(***************************************************************************)
(* C17: for a task created in status PENDING with a non-empty              *)
(* audio_file_path (prompt), perform_transcription (generate_content_task) *)
(* takes the status PENDING -> PROCESSING -> COMPLETED, stores the text it *)
(* returns in transcription_text (generated_content), in the object and in *)
(* the row, leaves error_message null and returns that text; while the     *)
(* method is between its saves the row says PROCESSING.                    *)
(***************************************************************************)
\* the call in progress or just finished started from a task as created
C17_FromCreated ==
  /\ task.kind \in TaskKinds /\ Len(task.seen) > 0 /\ task.seen[1] = "PENDING"
  /\ StrTruthy(task.input)

C18_EmptyInputFails ==
  (task.kind \in TaskKinds /\ task.input = <<>>) =>
    /\ task.pc # "running"
    /\ task.pc = "done" =>
         /\ task.out.exc = "ValidationError"
         /\ \A k \in 2..Len(task.seen) : task.seen[k] \notin {"PROCESSING", "COMPLETED"}
         /\ task.db.status = "FAILED" /\ ~IsNone(task.db.error_message)
         /\ task.db.error_message = RequiredMessage(task.kind)

\* a content generation task with an empty prompt has been run
C18_Witness ==
  /\ task.kind = "content" /\ task.input = <<>> /\ task.pc = "done"
  /\ task.out.exc = "ValidationError" /\ task.seen = <<"PENDING", "FAILED">>
  /\ task.db.status = "FAILED" /\ ~IsNone(task.db.error_message)

(***************************************************************************)
(* C19: for a TranscriptionTask whose audio_file_path is not empty but     *)
(* names a file that does not exist, perform_transcription raises          *)
(* ValidationError and the row ends with status FAILED and an              *)
(* error_message that is not null.                                         *)
(***************************************************************************)
C19_MissingFileFails ==
  (/\ task.kind = "transcription" /\ StrTruthy(task.input) /\ ~task.exists
   /\ task.pc = "done")
  => /\ task.out.exc = "ValidationError"
     /\ task.db.status = "FAILED" /\ ~IsNone(task.db.error_message)

\* what the code does there: the path is not opened, and the task completes
\* as it does for a file that exists
C19_MissingFileCompletes ==
  (/\ task.kind = "transcription" /\ StrTruthy(task.input) /\ ~task.exists
   /\ task.pc = "done")
  => task.out.exc = "none" /\ task.db.status = "COMPLETED"

(***************************************************************************)
(* marketing_service/models.py: SocialMediaPost.clean and publish, with    *)
(* common/utils.py process_audio_file and common/validators.py             *)
(* validate_audio_file, which publish calls for audio media.  The content  *)
(* of a post is held as its length, the one thing clean reads of it.       *)
(***************************************************************************)
\* platform_limits of clean
platform_limits == [FB |-> 63206, TW |-> 280, LI |-> 2200, IG |-> 2200]

\* the platform codes of the posts: the four of PLATFORM_CHOICES and one
\* that is none of them (the model field does not validate on save)
Platforms == {"FB", "TW", "LI", "IG", "INVALID"}

\* the lengths of content: none, and one below, at and one above each limit
ContentLengths ==
  {0} \cup UNION {{platform_limits[p] - 1, platform_limits[p], platform_limits[p] + 1} :
                    p \in DOMAIN platform_limits}

SUPPORTED_AUDIO_FORMATS == {<<".", "m", "p", "3">>, <<".", "w", "a", "v">>, <<".", "a", "a", "c">>}

MAX_AUDIO_FILE_SIZE_MB == 500

UpperCase == <<"A", "B", "C", "D", "E", "F", "G", "H", "I", "J", "K", "L", "M", "N", "O", "P", "Q", "R", "S", "T", "U", "V", "W", "X", "Y", "Z">>

LowerCase == <<"a", "b", "c", "d", "e", "f", "g", "h", "i", "j", "k", "l", "m", "n", "o", "p", "q", "r", "s", "t", "u", "v", "w", "x", "y", "z">>

\* str.lower(), of the ASCII letters
Lower(s) ==
  [k \in DOMAIN s |->
     IF \E j \in DOMAIN UpperCase : UpperCase[j] = s[k]
     THEN LowerCase[CHOOSE j \in DOMAIN UpperCase : UpperCase[j] = s[k]]
     ELSE s[k]]

\* os.path.splitext(name)[1] of a name without separators: from the last
\* dot on, unless only dots come before that dot
SplitExtension(name) ==
  LET dots == {k \in DOMAIN name : name[k] = "."}
      lastDot == CHOOSE k \in dots : \A j \in dots : j <= k
  IN IF dots = {} THEN <<>>
     ELSE IF \A j \in 1..(lastDot - 1) : name[j] = "." THEN <<>>
     ELSE SubSeq(name, lastDot, Len(name))

\* validators.validate_audio_file: the exception it raises, or "none"
validate_audio_file(file_name, file_size_mb) ==
  IF SplitExtension(Lower(file_name)) \notin SUPPORTED_AUDIO_FORMATS THEN "ValidationError"
  ELSE IF file_size_mb > MAX_AUDIO_FILE_SIZE_MB THEN "FileSizeLimitExceeded"
  ELSE "none"

\* utils.process_audio_file: every exception becomes a ValidationError
process_audio_file(file_name, file_size_mb) ==
  IF validate_audio_file(file_name, file_size_mb) = "none" THEN "none" ELSE "ValidationError"

\* the media a post carries: none, an image, audio files by several names,
\* audio without a URL
MediaUrls ==
  { <<"h", "t", "t", "p", ":", "/", "/", "x", "/", "a", ".", "m", "p", "3">>,
    <<"h", "t", "t", "p", ":", "/", "/", "x", "/", "b", ".", "W", "A", "V">>,
    <<"h", "t", "t", "p", ":", "/", "/", "x", "/", "a", ".", "t", "x", "t">>,
    <<"h", "t", "t", "p", ":", "/", "/", "x", "/", ".", "m", "p", "3">>,
    <<"h", "t", "t", "p", ":", "/", "/", "x", ".", "a", "a", "c", "/", "n", "o", "t", "e", "s">> }

Media ==
  {[media_type |-> PyNone, media_url |-> PyNone]}
  \cup {[media_type |-> <<"I", "M", "A", "G", "E">>, media_url |-> u] : u \in MediaUrls}
  \cup {[media_type |-> <<"A", "U", "D", "I", "O">>, media_url |-> u] : u \in MediaUrls \cup {<<>>}}

\* clean with the limit itself refused
clean_below_limit(platform, content_len) ==
  IF platform \notin DOMAIN platform_limits THEN "KeyError"
  ELSE IF content_len >= platform_limits[platform] THEN "ValidationError"
  ELSE "none"

\* SocialMediaPost.clean: the exception it raises, or "none"
clean(platform, content_len) ==
  IF platform \notin DOMAIN platform_limits THEN "KeyError"
  ELSE IF content_len > platform_limits[platform] THEN "ValidationError"
  ELSE "none"

\* whether publish processes an audio file
HasAudio(media) == media.media_type = <<"A", "U", "D", "I", "O">> /\ StrTruthy(media.media_url)

\* SocialMediaPost.publish: [ret, status], the status being saved
publish(platform, content_len, media) ==
  LET cleaned == clean(platform, content_len)
      parts == Split(media.media_url, "/")
      filename == parts[Len(parts)]
      file_size_mb == 0
  IN IF cleaned # "none" THEN [ret |-> FALSE, status |-> "FAILED"]
     ELSE IF HasAudio(media) /\ process_audio_file(filename, file_size_mb) # "none"
     THEN [ret |-> FALSE, status |-> "FAILED"]
     ELSE [ret |-> TRUE, status |-> "PUBLISHED"]

\* a post as objects.create() leaves it
CreatedPost(platform, content_len, media) ==
  [platform |-> platform, content_len |-> content_len, media |-> media,
   status |-> "DRAFT", db |-> "DRAFT", pc |-> "idle", ret |-> FALSE, cleaned |-> "uncalled"]

InitPosts ==
  /\ clock = 0
  /\ rates = DEFAULT_THROTTLE_RATES
  /\ store = EmptyStore
  /\ thr = [i \in Instances |-> NewThrottle]
  /\ used = [i \in Instances |-> FALSE]
  /\ log = <<>>
  /\ faults = FALSE
  /\ last = NoCall
  /\ call = [t \in Instances |-> IdleCall]
  /\ done = <<>>
  /\ pcall = NoPureCall
  /\ resp = NoResponse
  /\ task = NoTask
  /\ camp = NoCampaign
  /\ ver = NoVersioning
  /\ post \in {CreatedPost(p, n, m) : p \in Platforms, n \in ContentLengths, m \in Media}

\* one publish() call
Publish ==
  /\ post.pc = "idle"
  /\ LET out == publish(post.platform, post.content_len, post.media)
     IN post' = [post EXCEPT !.status = out.status, !.db = out.status,
                             !.pc = "done", !.ret = out.ret]
  /\ UNCHANGED <<throttleVars, pcall, resp, task, camp, ver>>

\* one clean() call: cleaned is the exception it raised, or "none"
Clean ==
  /\ post.platform # "none"
  /\ post.cleaned = "uncalled"
  /\ post' = [post EXCEPT !.cleaned = clean(post.platform, post.content_len)]
  /\ UNCHANGED <<throttleVars, pcall, resp, task, camp, ver>>

\* the content of a post is replaced and saved
EditContent(content_len) ==
  /\ post.pc = "done"
  /\ content_len # post.content_len
  /\ post' = [post EXCEPT !.content_len = content_len, !.pc = "idle", !.cleaned = "uncalled"]
  /\ UNCHANGED <<throttleVars, pcall, resp, task, camp, ver>>

NextPosts ==
  \/ Publish
  \/ Clean
  \/ \E n \in ContentLengths : EditContent(n)

SpecPosts == InitPosts /\ [][NextPosts]_vars

(***************************************************************************)
(* C20: publish never raises and what it returns matches the status it     *)
(* leaves: True with PUBLISHED, False with FAILED.  For a post on FB, TW,  *)
(* LI or IG without audio media it returns True and sets PUBLISHED iff     *)
(* len(content) is at most 63206, 280, 2200, 2200 respectively, and        *)
(* otherwise returns False and sets FAILED.                                *)
(***************************************************************************)
C20_Limit(p) ==
  CASE p = "FB" -> 63206 [] p = "TW" -> 280 [] p = "LI" -> 2200 [] p = "IG" -> 2200

C20_PublishMatchesLimit ==
  post.pc = "done" =>
    /\ post.status = post.db
    /\ \/ post.ret /\ post.status = "PUBLISHED"
       \/ ~post.ret /\ post.status = "FAILED"
    /\ (post.platform \in {"FB", "TW", "LI", "IG"} /\ ~HasAudio(post.media)) =>
         (post.ret <=> post.content_len <= C20_Limit(post.platform))

\* a tweet of exactly 280 characters was published
C20_Witness ==
  /\ post.pc = "done" /\ post.platform = "TW" /\ post.content_len = 280
  /\ ~HasAudio(post.media) /\ post.ret /\ post.status = "PUBLISHED"

(***************************************************************************)
(* C21: clean raises ValidationError for a post whose platform is not one  *)
(* of FB, TW, LI, IG.                                                      *)
(***************************************************************************)
C21_UnknownPlatformIsValidationError ==
  (post.platform \notin {"none", "FB", "TW", "LI", "IG"} /\ post.cleaned # "uncalled")
  => post.cleaned = "ValidationError"

\* what the code does there: the lookup platform_limits[self.platform]
\* raises KeyError before any test is made
C21_UnknownPlatformIsKeyError ==
  (post.platform \notin {"none", "FB", "TW", "LI", "IG"} /\ post.cleaned # "uncalled")
  => post.cleaned = "KeyError"

(***************************************************************************)
(* marketing_service/models.py: MarketingCampaign.add_post and the         *)
(* CampaignPost table with unique_together = ['campaign', 'post'].  The    *)
(* table is a bag of (campaign, post) pairs, so that two rows of one pair  *)
(* can be told from one.  Campaigns and posts are rows that were saved.    *)
(***************************************************************************)
MaxCampaigns == 2

MaxPosts == 2

Campaigns == 1..MaxCampaigns

\* what add_post is called with: a saved SocialMediaPost, or a value that
\* is no SocialMediaPost (a string, None)
PostArgs ==
  {[kind |-> "SocialMediaPost", id |-> p] : p \in 1..MaxPosts}
  \cup {[kind |-> "str", id |-> 0], [kind |-> "NoneType", id |-> 0]}

\* CampaignPost.objects.create without the unique_together constraint
objects_create_no_unique(rows, campaign, p) ==
  [exc |-> "none", rows |-> rows (+) SetToBag({<<campaign, p>>})]

\* CampaignPost.objects.create(campaign=..., post=...): [exc, rows]
objects_create(rows, campaign, p) ==
  IF BagIn(<<campaign, p>>, rows)
  THEN [exc |-> "IntegrityError", rows |-> rows]
  ELSE [exc |-> "none", rows |-> rows (+) SetToBag({<<campaign, p>>})]

\* MarketingCampaign.add_post: [raised, ret, rows]
add_post(rows, campaign, arg) ==
  IF arg.kind # "SocialMediaPost" THEN [raised |-> FALSE, ret |-> FALSE, rows |-> rows]
  ELSE LET made == objects_create(rows, campaign, arg.id)
       IN IF made.exc # "none" THEN [raised |-> FALSE, ret |-> FALSE, rows |-> rows]
          ELSE [raised |-> FALSE, ret |-> TRUE, rows |-> made.rows]

\* the number of rows of a pair
RowsOf(rows, campaign, p) ==
  IF BagIn(<<campaign, p>>, rows) THEN CopiesIn(<<campaign, p>>, rows) ELSE 0

\* one add_post call; had is the number of rows of the pair before it
AddPost(campaign, arg) ==
  /\ LET out == add_post(camp.rows, campaign, arg)
     IN camp' = [rows |-> out.rows, op |-> "add_post", campaign |-> campaign, arg |-> arg,
                 had |-> RowsOf(camp.rows, campaign, arg.id),
                 raised |-> out.raised, ret |-> out.ret, created |-> out.rows # camp.rows]
  /\ UNCHANGED <<throttleVars, pcall, resp, task, post, ver>>

InitCampaigns == InitWith({DEFAULT_THROTTLE_RATES})

NextCampaigns == \E campaign \in Campaigns, arg \in PostArgs : AddPost(campaign, arg)

SpecCampaigns == InitCampaigns /\ [][NextCampaigns]_vars

(***************************************************************************)
(* C22: after any sequence of add_post calls there is at most one          *)
(* CampaignPost row per (campaign, post) pair.  The first add_post of a    *)
(* post returns True and creates the row, every later add_post of that     *)
(* post to that campaign returns False and creates nothing, and add_post   *)
(* of a value that is no SocialMediaPost returns False without raising.    *)
(***************************************************************************)
C22_OneRelationPerPair ==
  /\ \A c \in Campaigns, p \in 1..MaxPosts : RowsOf(camp.rows, c, p) <= 1
  /\ camp.op = "add_post" =>
       /\ ~camp.raised
       /\ IF camp.arg.kind = "SocialMediaPost"
          THEN IF camp.had = 0
               THEN /\ camp.ret /\ camp.created
                    /\ RowsOf(camp.rows, camp.campaign, camp.arg.id) = 1
               ELSE /\ ~camp.ret /\ ~camp.created
                    /\ RowsOf(camp.rows, camp.campaign, camp.arg.id) = camp.had
          ELSE ~camp.ret /\ ~camp.created

\* a post that was in the campaign was added to it again, and refused, while
\* it is in the other campaign too
C22_Witness ==
  /\ camp.op = "add_post" /\ camp.arg.kind = "SocialMediaPost"
  /\ camp.had = 1 /\ ~camp.ret /\ ~camp.created
  /\ \A c \in Campaigns : RowsOf(camp.rows, c, camp.arg.id) = 1

(***************************************************************************)
(* api/schema.py and api/versioning.py as functions of the Accept header:  *)
(* generate_schema and get_version_from_request called on their own.       *)
(***************************************************************************)
\* more Accept headers: versions outside SUPPORTED_API_VERSIONS, texts the
\* pattern does not match, two version parameters
SchemaAccepts ==
  AcceptHeaders \cup
  { <<"v", "e", "r", "s", "i", "o", "n", "=", "v", "3">>,
    <<"a", "p", "p", "l", "i", "c", "a", "t", "i", "o", "n", "/", "j", "s", "o", "n", ";", " ", "v", "e", "r", "s", "i", "o", "n", "=", "v", "1", "0">>,
    <<"a", "p", "p", "l", "i", "c", "a", "t", "i", "o", "n", "/", "j", "s", "o", "n", ";", " ", "v", "e", "r", "s", "i", "o", "n", "=", "2">>,
    <<"a", "p", "p", "l", "i", "c", "a", "t", "i", "o", "n", "/", "j", "s", "o", "n", ";", " ", "v", "e", "r", "s", "i", "o", "n", "=", "v">>,
    <<"a", "p", "p", "l", "i", "c", "a", "t", "i", "o", "n", "/", "j", "s", "o", "n", ";", " ", "V", "E", "R", "S", "I", "O", "N", "=", "v", "2">>,
    <<"t", "e", "x", "t", "/", "h", "t", "m", "l", ";", " ", "v", "e", "r", "s", "i", "o", "n", "=", "v", "2", ";", " ", "q", "=", "0", ".", "9">>,
    <<"v", "e", "r", "s", "i", "o", "n", "=", "v", "9", "9", "9", ",", " ", "v", "e", "r", "s", "i", "o", "n", "=", "v", "2">>,
    <<"a", "p", "p", "l", "i", "c", "a", "t", "i", "o", "n", "/", "j", "s", "o", "n", ";", " ", "v", "e", "r", "s", "i", "o", "n", "=", "v", "1", "x">> }

\* every state of the two schema files
SchemaFileStates == [SUPPORTED_API_VERSIONS -> {"missing", "json", "corrupt"}]

\* one generate_schema call
CallGenerateSchema(accept, hostOk, files) ==
  /\ pcall' = [fn |-> "generate_schema", in |-> [accept |-> accept, hostOk |-> hostOk, files |-> files],
               out |-> generate_schema(accept, hostOk, files)]
  /\ UNCHANGED <<throttleVars, resp, task, post, camp, ver>>

\* one get_version_from_request call
CallGetVersion(accept) ==
  /\ pcall' = [fn |-> "get_version_from_request", in |-> [accept |-> accept],
               out |-> get_version_from_request(accept)]
  /\ UNCHANGED <<throttleVars, resp, task, post, camp, ver>>

InitSchema == InitWith({DEFAULT_THROTTLE_RATES})

NextSchema ==
  \/ \E accept \in SchemaAccepts, hostOk \in BOOLEAN, files \in SchemaFileStates :
       CallGenerateSchema(accept, hostOk, files)
  \/ \E accept \in SchemaAccepts : CallGetVersion(accept)

SpecSchema == InitSchema /\ [][NextSchema]_vars

\* the Accept header names a version, and it is none of the supported ones
NamesUnsupportedVersion(accept) ==
  /\ ~IsNone(SearchVersion(accept))
  /\ SearchVersion(accept) \notin SUPPORTED_API_VERSIONS

(***************************************************************************)
(* C23: generate_schema raises ValueError for a request whose Accept       *)
(* header names an unsupported API version (version=v999), and             *)
(* get_version_from_request returns v1 for version=v1 and v2 for           *)
(* version=v2.                                                             *)
(***************************************************************************)
C23_UnsupportedVersionRaises ==
  /\ (pcall.fn = "generate_schema" /\ NamesUnsupportedVersion(pcall.in.accept))
       => pcall.out.exc = "ValueError"
  /\ (pcall.fn = "get_version_from_request" /\ ~IsNone(SearchVersion(pcall.in.accept))
        /\ SearchVersion(pcall.in.accept) \in SUPPORTED_API_VERSIONS)
       => pcall.out = SearchVersion(pcall.in.accept)

\* what the code does: an unsupported version is answered as the default
\* version is, with ValueError exactly when the default version's schema
\* file is missing; a supported version is returned as named
C23_UnsupportedVersionIsDefault ==
  /\ (pcall.fn = "generate_schema" /\ NamesUnsupportedVersion(pcall.in.accept))
       => /\ pcall.out.version = DEFAULT_API_VERSION
          /\ pcall.out.exc = "ValueError"
               <=> (pcall.in.hostOk /\ pcall.in.files[DEFAULT_API_VERSION] = "missing")
  /\ (pcall.fn = "get_version_from_request" /\ ~IsNone(SearchVersion(pcall.in.accept))
        /\ SearchVersion(pcall.in.accept) \in SUPPORTED_API_VERSIONS)
       => pcall.out = SearchVersion(pcall.in.accept)

(***************************************************************************)
(* C24: pruning removes every timestamp t <= now - period.  With a full    *)
(* window whose oldest entry is t0, a call at now = t0 + period is         *)
(* admitted and a call at any now < t0 + period is denied.  The full       *)
(* window is taken from the calls: L admitted calls of the identity, the   *)
(* newest less than a period after the oldest, and no admission since.     *)
(***************************************************************************)
\* the largest element of a non-empty set of numbers
MaxOf(S) == CHOOSE x \in S : \A y \in S : x >= y

\* the timestamps of the calls admitted before the k-th call of request r
AdmittedTimes(r, k) == {CallsOf(r)[j].t : j \in AdmittedBefore(CallsOf(r), k)}

\* before its k-th call the identity of r has a full window
C24_FullWindow(r, k) ==
  /\ Cardinality(AdmittedBefore(CallsOf(r), k)) = LimitOf(r)
  /\ MaxOf(AdmittedTimes(r, k)) - MinOf(AdmittedTimes(r, k)) < PeriodOf(r)

C24_PruneBoundary ==
  \A r \in RequestIds :
    (Limited(r) /\ LimitOf(r) > 0 /\ ~faults) =>
      \A k \in 1..Len(CallsOf(r)) :
        C24_FullWindow(r, k) =>
          LET t0 == MinOf(AdmittedTimes(r, k))
              now == CallsOf(r)[k].t
          IN /\ now = t0 + PeriodOf(r) => CallsOf(r)[k].res = "True"
             /\ now < t0 + PeriodOf(r) => CallsOf(r)[k].res = "False"

\* what the code does: the call that finds a full window is admitted,
\* before t0 + period as well as at it
C24_FullWindowAdmitted ==
  \A r \in RequestIds :
    (Limited(r) /\ LimitOf(r) > 0) =>
      \A k \in 1..Len(CallsOf(r)) : C24_FullWindow(r, k) => CallsOf(r)[k].res = "True"

(***************************************************************************)
(* C26: in sequential execution with a clock that does not go back, the    *)
(* window stored under each key holds at most `limit` timestamps, is       *)
(* ordered newest first, and is exactly the admitted timestamps that were  *)
(* unexpired at the last admission.  Stated for an identity with a limit,  *)
(* an admitted call and a store that did not fail.                         *)
(***************************************************************************)
\* the admitted calls of request r
AdmittedCalls(r) == SelectSeq(CallsOf(r), LAMBDA e : e.res = "True")

\* the timestamps of the admitted calls of r that were unexpired at the last
\* admission, newest first
C26_ExpectedWindow(r) ==
  LET adm == AdmittedCalls(r)
      newest == adm[Len(adm)].t
      kept == SelectSeq(adm, LAMBDA e : e.t > newest - PeriodOf(r))
  IN [i \in 1..Len(kept) |-> kept[Len(kept) + 1 - i].t]

C26_StoredWindowIsAdmittedUnexpired ==
  \A r \in RequestIds :
    (Limited(r) /\ LimitOf(r) > 0 /\ ~faults /\ Len(AdmittedCalls(r)) > 0) =>
      LET w == Stored(store, KeyOf(r))
      IN /\ HasStored(store, KeyOf(r))
         /\ w.t = "list"
         /\ Len(w.l) <= LimitOf(r)
         /\ \A i, j \in 1..Len(w.l) : i < j => w.l[i] >= w.l[j]
         /\ w.l = C26_ExpectedWindow(r)

\* what the code does: no window is stored under any key
C26_NothingStored == \A r \in RequestIds : Limited(r) => ~HasStored(store, KeyOf(r))

(***************************************************************************)
(* C28: lost update.  When two allow_request calls on one key both fetch   *)
(* the window before either stores it, then after both have returned true  *)
(* the stored window holds the timestamp of only one of the two.  Stated   *)
(* for the first two calls of a key, once no call is in flight.            *)
(***************************************************************************)
\* the last two completed calls raced on the key of one identity that had
\* completed no call before, and both returned true
C28_RacedPair ==
  /\ InFlight = {}
  /\ Len(done) >= 2
  /\ LET a == done[Len(done) - 1]
         b == done[Len(done)]
     IN /\ a.r = b.r /\ Limited(a.r) /\ LimitOf(a.r) >= 1
        /\ a.raced /\ b.raced /\ a.fresh /\ b.fresh /\ ~a.failed /\ ~b.failed
        /\ a.res = "True" /\ b.res = "True"

C28_OnlyOneTimestampStored ==
  C28_RacedPair =>
    LET w == Stored(store, KeyOf(done[Len(done)].r))
    IN /\ HasStored(store, KeyOf(done[Len(done)].r))
       /\ w.t = "list"
       /\ Len(w.l) = 1
       /\ w.l[1] \in {done[Len(done) - 1].t, done[Len(done)].t}

\* what the code does: after the two racing calls no window is stored
C28_NoTimestampStored ==
  C28_RacedPair => ~HasStored(store, KeyOf(done[Len(done)].r))

(***************************************************************************)
(* api/versioning.py: allow_request and the module-level request_history,  *)
(* a dict from the client key to the list of the timestamps of its         *)
(* admitted requests.  time.time() is the clock; calls are made at the     *)
(* start, when the first timestamps are exactly one window old, and one    *)
(* second later.  ver.admitted counts, per key and time, the requests that *)
(* were admitted and recorded at the times of the window that ends now;    *)
(* the code does not keep it, and it is kept apart from request_history.   *)
(***************************************************************************)
MAX_REQUESTS_PER_MINUTE == 60

REQUEST_WINDOW_SECONDS == 60

MaxRemoteCalls == 1

\* the values of time.time() at which calls are made
VersionTimes == {0, REQUEST_WINDOW_SECONDS, REQUEST_WINDOW_SECONDS + 1}

\* a request: whether it has a META dict, and the two entries read from it
VersionRequest(hasMeta, hasXff, xff, remote) ==
  [hasMeta |-> hasMeta, hasXff |-> hasXff, xff |-> xff, remote |-> remote]

\* a proxied client, a client seen directly, an object without META
VersionRequests ==
  << VersionRequest(TRUE, TRUE, <<"7", ".", "7">>, <<"9", ".", "9">>),
     VersionRequest(TRUE, FALSE, PyNone, <<"9", ".", "9">>),
     VersionRequest(FALSE, FALSE, PyNone, PyNone) >>

\* request.META.get('HTTP_X_FORWARDED_FOR', request.META.get('REMOTE_ADDR'))
client_ip_of(request) == IF request.hasXff THEN request.xff ELSE request.remote

\* the list comprehension with `<` in place of `<=`
version_prune_strict(h, now) ==
  SelectSeq(h, LAMBDA timestamp : now - timestamp < REQUEST_WINDOW_SECONDS)

\* lines 118-121: the timestamps kept by the list comprehension
version_prune(h, now) ==
  SelectSeq(h, LAMBDA timestamp : now - timestamp <= REQUEST_WINDOW_SECONDS)

\* request_history[client_ip], after `if client_ip not in request_history`
HistoryOf(history, key) == IF key \in DOMAIN history THEN history[key] ELSE <<>>

\* request_history with request_history[key] = h
WithHistory(history, key, h) ==
  [k \in DOMAIN history \cup {key} |-> IF k = key THEN h ELSE history[k]]

\* versioning.allow_request: [exc, ret, history]
versioning_allow_request(history, request, now) ==
  IF ~request.hasMeta
  THEN [exc |-> TRUE, ret |-> TRUE, history |-> history]
  ELSE LET key == client_ip_of(request)
           kept == version_prune(HistoryOf(history, key), now)
       IN IF Len(kept) >= MAX_REQUESTS_PER_MINUTE
          THEN [exc |-> FALSE, ret |-> FALSE, history |-> WithHistory(history, key, kept)]
          ELSE [exc |-> FALSE, ret |-> TRUE,
                history |-> WithHistory(history, key, Append(kept, now))]

\* the number of requests of a key admitted and recorded at time t
AdmittedAt(admitted, key, t) == IF key \in DOMAIN admitted THEN admitted[key][t] ELSE 0

RECURSIVE SumOver(_, _, _)
\* the number of requests of a key admitted and recorded at the times in S
SumOver(admitted, key, S) ==
  IF S = {} THEN 0
  ELSE LET t == CHOOSE x \in S : TRUE
       IN AdmittedAt(admitted, key, t) + SumOver(admitted, key, S \ {t})

\* the timestamps of h that are no older than the window at time now
CountedIn(h, now) ==
  Cardinality({i \in 1..Len(h) : now - h[i] <= REQUEST_WINDOW_SECONDS})

\* one allow_request call at the current time
VersionAllow(q) ==
  /\ LET request == VersionRequests[q]
         key == client_ip_of(request)
         out == versioning_allow_request(ver.request_history, request, clock)
         recorded == ~out.exc /\ out.ret
     IN /\ (request.hasMeta /\ ~request.hasXff)
             => SumOver(ver.admitted, key, VersionTimes) < MaxRemoteCalls
        /\ ver' = [request_history |-> out.history,
                   admitted |-> IF recorded
                                THEN [k \in DOMAIN ver.admitted \cup {key} |->
                                       IF k = key
                                       THEN [t \in VersionTimes |->
                                              AdmittedAt(ver.admitted, key, t)
                                              + (IF t = clock THEN 1 ELSE 0)]
                                       ELSE ver.admitted[k]]
                                ELSE ver.admitted,
                   op |-> "allow_request", q |-> q, key |-> key,
                   counted |-> CountedIn(HistoryOf(ver.request_history, key), clock),
                   exc |-> out.exc, ret |-> out.ret]
  /\ UNCHANGED <<throttleVars, pcall, resp, task, post, camp>>

\* time passes, to a later one of the times at which calls are made; the
\* admissions that are older than the window now are no longer counted
VersionTick(t) ==
  /\ t > clock
  /\ clock' = t
  /\ ver' = [request_history |-> ver.request_history,
             admitted |-> [k \in DOMAIN ver.admitted |->
                            [u \in VersionTimes |->
                              IF t - u <= REQUEST_WINDOW_SECONDS THEN ver.admitted[k][u] ELSE 0]],
             op |-> "tick"]
  /\ UNCHANGED <<rates, store, thr, used, log, faults, last, call, done>>
  /\ UNCHANGED <<pcall, resp, task, post, camp>>

InitVersion == InitWith({DEFAULT_THROTTLE_RATES})

NextVersion ==
  \/ \E q \in DOMAIN VersionRequests : VersionAllow(q)
  \/ \E t \in VersionTimes : VersionTick(t)

SpecVersion == InitVersion /\ [][NextVersion]_vars

(***************************************************************************)
(* C29: in sequential use versioning.allow_request admits at most          *)
(* MAX_REQUESTS_PER_MINUTE = 60 requests of a client key within any window *)
(* of REQUEST_WINDOW_SECONDS = 60 seconds.  The history of a key never has *)
(* more than 60 entries; a request is denied iff 60 timestamps no older    *)
(* than 60 seconds are recorded, one exactly 60 seconds old counting; a    *)
(* denied request is not recorded; an internal exception admits the        *)
(* request.                                                                *)
(***************************************************************************)
C29_AtMostSixtyPerWindow ==
  /\ \A key \in DOMAIN ver.request_history :
       Len(ver.request_history[key]) <= MAX_REQUESTS_PER_MINUTE
  /\ \A key \in DOMAIN ver.admitted :
       SumOver(ver.admitted, key, {t \in VersionTimes : clock - t <= REQUEST_WINDOW_SECONDS})
         <= MAX_REQUESTS_PER_MINUTE
  /\ ver.op = "allow_request" =>
       IF ver.exc THEN ver.ret
       ELSE /\ ~ver.ret <=> ver.counted = MAX_REQUESTS_PER_MINUTE
            /\ ~ver.ret => Len(ver.request_history[ver.key]) = ver.counted
            /\ ver.ret => /\ Len(ver.request_history[ver.key]) = ver.counted + 1
                          /\ ver.request_history[ver.key][ver.counted + 1] = clock

\* a request is denied at time 60 on 60 recorded timestamps, some of them
\* exactly 60 seconds old
C29_Witness ==
  /\ ver.op = "allow_request" /\ ~ver.exc /\ ~ver.ret
  /\ clock = REQUEST_WINDOW_SECONDS
  /\ \E i \in 1..Len(ver.request_history[ver.key]) : ver.request_history[ver.key][i] = 0
  /\ ver.counted = MAX_REQUESTS_PER_MINUTE

(***************************************************************************)
(* C30: a TranscriptionTask or ContentGenerationTask is never left in      *)
(* PROCESSING when its method finishes.  From any starting status the      *)
(* method returns normally iff the final status is COMPLETED and raises    *)
(* ValidationError iff it is FAILED, and the status is always one of       *)
(* PENDING, PROCESSING, COMPLETED, FAILED.                                 *)
(***************************************************************************)
C30_NeverLeftProcessing ==
  task.kind \in TaskKinds =>
    /\ task.obj.status \in TaskStatuses /\ task.db.status \in TaskStatuses
    /\ task.pc = "done" =>
         /\ task.obj.status # "PROCESSING" /\ task.db.status = task.obj.status
         /\ task.out.exc \in {"none", "ValidationError"}
         /\ task.out.exc = "none" <=> task.obj.status = "COMPLETED"
         /\ task.out.exc = "ValidationError" <=> task.obj.status = "FAILED"

\* a task that was in PROCESSING when the method was called has failed
C30_Witness ==
  /\ task.kind \in TaskKinds /\ task.pc = "done"
  /\ task.seen = <<"PROCESSING", "FAILED">>
  /\ task.out.exc = "ValidationError" /\ task.db.status = "FAILED"

\* a task that was FAILED when the method was called has completed
C30_WitnessRerun ==
  /\ task.kind \in TaskKinds /\ task.pc = "done"
  /\ task.seen = <<"FAILED", "PROCESSING", "COMPLETED">>
  /\ task.out.exc = "none" /\ task.db.status = "COMPLETED"

====
